---- MODULE Spec2Model ----
(***************************************************************************)
(* State-machine model of the CoverageMap component                        *)
(* (src/components/Map/Map.js): the viewport bounds, the four selection    *)
(* sources that overwrite it, the asynchronous transaction resolution and  *)
(* the fit options handed to the rendering surface.                        *)
(*                                                                         *)
(* Coordinates are integers in hundredths of a degree.  An optional value  *)
(* (JavaScript undefined) is the empty sequence, a present value x is the  *)
(* one-element sequence <<x>>.                                             *)
(*                                                                         *)
(* One action is one turn of the UI event loop: the change of an input,    *)
(* the re-render it causes and the effects whose dependencies changed, in  *)
(* declaration order.                                                      *)
(***************************************************************************)
EXTENDS Integers, Sequences, FiniteSets, Bags, TLC

VARIABLES
    isDesktopOrLaptop,     \* useMediaQuery({ minDeviceWidth: 1224 })
    showInfoBox,           \* useInfoBox().showInfoBox
    styleLoaded,           \* useState(false); also: map.current is set
    currentPosition,       \* useGeolocation().currentPosition
    selectedHotspot,       \* useSelectedHotspot().selectedHotspot
    selectedTxn,           \* useSelectedTxn().selectedTxn
    selectedTxnHotspot,    \* useState()
    selectedTxnWitnesses,  \* useState([])
    bounds,                \* useState(isDesktopOrLaptop ? US_EU_BOUNDS : US_BOUNDS)
    inflight,              \* bag of the transactions whose resolution is suspended at the fetch
    continuation,          \* a resolution between its two state writes
    fired,                 \* history: some selection source has fired
    turn                   \* history: the adapter of the last turn and what it called

vars ==
    << isDesktopOrLaptop, showInfoBox, styleLoaded, currentPosition,
       selectedHotspot, selectedTxn, selectedTxnHotspot, selectedTxnWitnesses,
       bounds, inflight, continuation, fired, turn >>

----------------------------------------------------------------------------
(* Bounds of the model *)

\* most features one pointer hit-test returns
MaxHits == 2
\* most resolutions suspended at the record fetch at one time
MaxInFlight == 2
\* latest timestamp a location fix carries
MaxTimestamp == 1

----------------------------------------------------------------------------
(* Optional values *)

undefined == << >>

Some(x) == << x >>

Val(o) == o[1]

----------------------------------------------------------------------------
(* Constants of the component *)

US_BOUNDS == << << -6108, 4484 >>, << -12500, 3300 >> >>

US_EU_BOUNDS == << << 3210, 5863 >>, << -12500, 3300 >> >>

MOBILE_PADDING == [top |-> 10, left |-> 10, right |-> 10, bottom |-> 450]

DESKTOP_PADDING == [top |-> 200, left |-> 600, right |-> 200, bottom |-> 200]

\* `padding: 10`: one number for all four sides
UNIFORM_PADDING == [uniform |-> 10]

----------------------------------------------------------------------------
(* Data the collaborators supply *)

\* fetchHotspot: the record an address resolves to
HotspotRecords ==
    { [address |-> "h1", lat |-> 100, lng |-> 200],
      [address |-> "h2", lat |-> 300, lng |-> 400] }

fetchHotspot(address) == CHOOSE r \in HotspotRecords : r.address = address

\* h3ToGeo: the centre of a hex cell, latitude first
h3ToGeo(location) ==
    CASE location = "c1" -> << 150, 250 >>
      [] location = "c2" -> << 120, 300 >>

\* transaction records of the transaction-selection store
Txns ==
    { [hash |-> "tA", type |-> "poc_receipts_v1",
       path |-> << [challengee |-> "h1",
                    witnesses |-> << [location |-> "c1"], [location |-> "c2"] >>] >>],
      [hash |-> "tB", type |-> "poc_receipts_v1",
       path |-> << [challengee |-> "h2", witnesses |-> << >>] >>],
      [hash |-> "tP", type |-> "payment_v2", path |-> << >>] }

\* selections of the primary-selection store; `witnesses` may be missing
PrimarySelections ==
    { [address |-> "h1", lat |-> 100, lng |-> 200, witnesses |-> undefined],
      [address |-> "h2", lat |-> 300, lng |-> 400,
       witnesses |-> Some(<< [address |-> "w2", lat |-> 350, lng |-> 600],
                             [address |-> "w1", lat |-> 500, lng |-> 450] >>)] }

\* coordinates of a location fix
FixCoords ==
    { [latitude |-> 1000, longitude |-> 2000],
      [latitude |-> -300, longitude |-> -700] }

\* features of layer 'hotspots-circle'; coordinates are [lng, lat]
Features ==
    { [geometry |-> [coordinates |-> << 200, 100 >>], properties |-> [address |-> "h1"]],
      [geometry |-> [coordinates |-> << 400, 300 >>], properties |-> [address |-> "h2"]] }

RECURSIVE SeqsUpTo(_, _)
SeqsUpTo(S, n) ==
    IF n = 0 THEN { << >> }
    ELSE LET shorter == SeqsUpTo(S, n - 1)
         IN  shorter \cup { Append(q, x) : q \in shorter, x \in S }

\* what map.current.queryRenderedFeatures(e.point, ...) can return
HitTests == SeqsUpTo(Features, MaxHits)

----------------------------------------------------------------------------
(* findBounds (utils/location): one pass over a non-empty point-set *)

RECURSIVE findBoundsPass(_, _, _)
findBoundsPass(points, i, acc) ==
    IF i > Len(points) THEN acc
    ELSE LET p == points[i]
         IN  findBoundsPass(points, i + 1,
                 [maxLat |-> IF p.lat > acc.maxLat THEN p.lat ELSE acc.maxLat,
                  minLat |-> IF p.lat < acc.minLat THEN p.lat ELSE acc.minLat,
                  maxLng |-> IF p.lng > acc.maxLng THEN p.lng ELSE acc.maxLng,
                  minLng |-> IF p.lng < acc.minLng THEN p.lng ELSE acc.minLng])

findBounds(points) ==
    LET p == points[1]
        acc == findBoundsPass(points, 2,
                   [maxLat |-> p.lat, minLat |-> p.lat,
                    maxLng |-> p.lng, minLng |-> p.lng])
    IN  << << acc.maxLng, acc.maxLat >>, << acc.minLng, acc.minLat >> >>

\* an empty point-set is an InvalidArgument: the call throws
InvalidArgument(points) == Len(points) = 0

----------------------------------------------------------------------------
(* Pure parts of the component *)

\* mutant: the two defaults exchanged
InitialBounds_Swapped(desktop) == IF desktop THEN US_BOUNDS ELSE US_EU_BOUNDS

\* the initial value of the bounds state
InitialBounds(desktop) == IF desktop THEN US_EU_BOUNDS ELSE US_BOUNDS

\* mutant: the overlay rule tested before the wide-viewport rule
fitBoundsOptionsOf_OverlayFirst(desktop, infoBox, loaded) ==
    LET animate == loaded
    IN  IF infoBox THEN [padding |-> MOBILE_PADDING, animate |-> animate]
        ELSE IF desktop THEN [padding |-> DESKTOP_PADDING, animate |-> animate]
        ELSE [padding |-> UNIFORM_PADDING, animate |-> animate]

\* mutant: the fit always animates
fitBoundsOptionsOf_AlwaysAnimate(desktop, infoBox, loaded) ==
    LET animate == TRUE
    IN  IF desktop THEN [padding |-> DESKTOP_PADDING, animate |-> animate]
        ELSE IF infoBox THEN [padding |-> MOBILE_PADDING, animate |-> animate]
        ELSE [padding |-> UNIFORM_PADDING, animate |-> animate]

\* the useMemo of the fit options
fitBoundsOptionsOf(desktop, infoBox, loaded) ==
    LET animate == loaded
    IN  IF desktop THEN [padding |-> DESKTOP_PADDING, animate |-> animate]
        ELSE IF infoBox THEN [padding |-> MOBILE_PADDING, animate |-> animate]
        ELSE [padding |-> UNIFORM_PADDING, animate |-> animate]

fitBoundsOptions == fitBoundsOptionsOf(isDesktopOrLaptop, showInfoBox, styleLoaded)

\* witnesses.map(({ lat, lng }) => ({ lat, lng }))
LatLngOf(ws) == [i \in 1..Len(ws) |-> [lat |-> ws[i].lat, lng |-> ws[i].lng]]

\* mutant: latitude and longitude exchanged
GeolocationPoints_Swapped(coords) ==
    << [lng |-> coords.latitude, lat |-> coords.longitude] >>

\* point-set of the geolocation effect
GeolocationPoints(coords) ==
    << [lng |-> coords.longitude, lat |-> coords.latitude] >>

\* mutant: the witnesses left out
SelectedHotspotPoints_FocalOnly(hotspot) ==
    << [lat |-> hotspot.lat, lng |-> hotspot.lng] >>

\* point-set of the primary selection effect
SelectedHotspotPoints(hotspot) ==
    LatLngOf(IF hotspot.witnesses = undefined THEN << >> ELSE Val(hotspot.witnesses))
        \o << [lat |-> hotspot.lat, lng |-> hotspot.lng] >>

\* point-set of the derived transaction effect
SelectedTxnPoints(hotspot, witnesses) ==
    LatLngOf(witnesses) \o << [lat |-> hotspot.lat, lng |-> hotspot.lng] >>

\* mutant: coordinates read as [lat, lng]
ClusterPoints_Swapped(features) ==
    [i \in 1..Len(features) |->
        [lat |-> features[i].geometry.coordinates[1],
         lng |-> features[i].geometry.coordinates[2]]]

\* point-set of a click on a cluster
ClusterPoints(features) ==
    [i \in 1..Len(features) |->
        [lat |-> features[i].geometry.coordinates[2],
         lng |-> features[i].geometry.coordinates[1]]]

\* the witnesses a resolution decodes from the transaction it closed over
DecodedWitnesses(txn) ==
    LET ws == txn.path[1].witnesses
    IN  [i \in 1..Len(ws) |->
            [location |-> ws[i].location,
             lat |-> h3ToGeo(ws[i].location)[1],
             lng |-> h3ToGeo(ws[i].location)[2]]]

----------------------------------------------------------------------------
(* What a turn did to the collaborators *)

\* src: the adapter that fired, "none" when none did; hits: what the hit-test
\* of a click returned; emit: the addresses passed to selectHotspot; calls: the
\* point-sets passed to findBounds, in order; threw: the handler ended in an
\* exception
Turn(src, hits, emit, calls, threw) ==
    [src |-> src, hits |-> hits, emit |-> emit, calls |-> calls, threw |-> threw]

\* a turn in which no adapter fired
Quiet == Turn("none", << >>, << >>, << >>, FALSE)

\* a turn whose effect may have returned early: `points` is undefined when it did
Called(src, points) ==
    IF points = undefined THEN Quiet
    ELSE Turn(src, << >>, << >>, << Val(points) >>, FALSE)

\* mutant: the first source to fire keeps bounds, later effects do not write
BoundsAfter_FirstWins(points) ==
    IF points = undefined \/ fired THEN bounds ELSE findBounds(Val(points))

\* mutant: an effect that returns early puts the default box back
BoundsAfter_ResetOnEmpty(points) ==
    IF points = undefined THEN InitialBounds(isDesktopOrLaptop)
    ELSE findBounds(Val(points))

\* setBounds(findBounds(points)) of an effect that may have returned early:
\* `points` is undefined when it did
BoundsAfter(points) ==
    IF points = undefined THEN bounds ELSE findBounds(Val(points))

\* no resolution is between its two state writes
Idle == continuation = undefined

----------------------------------------------------------------------------
(* Initial state: the component is mounted and no source has a value *)

Init ==
    /\ isDesktopOrLaptop \in BOOLEAN
    /\ showInfoBox \in BOOLEAN
    /\ styleLoaded = FALSE
    /\ currentPosition = [coords |-> undefined, timestamp |-> 0]
    /\ selectedHotspot = undefined
    /\ selectedTxn = undefined
    /\ selectedTxnHotspot = undefined
    /\ selectedTxnWitnesses = << >>
    /\ bounds = InitialBounds(isDesktopOrLaptop)
    /\ inflight = EmptyBag
    /\ continuation = undefined
    /\ fired = FALSE
    /\ turn = Quiet

----------------------------------------------------------------------------
(* Context changes *)

\* mutant: the default box is taken again when the device class changes
DeviceClassChange_ResetsBounds ==
    /\ Idle
    /\ isDesktopOrLaptop' = ~isDesktopOrLaptop
    /\ bounds' = InitialBounds(isDesktopOrLaptop')
    /\ turn' = Quiet
    /\ UNCHANGED << showInfoBox, styleLoaded, currentPosition, selectedHotspot,
                    selectedTxn, selectedTxnHotspot, selectedTxnWitnesses,
                    inflight, continuation, fired >>

\* the media query changes its answer
DeviceClassChange ==
    /\ Idle
    /\ isDesktopOrLaptop' = ~isDesktopOrLaptop
    /\ turn' = Quiet
    /\ UNCHANGED << showInfoBox, styleLoaded, currentPosition, selectedHotspot,
                    selectedTxn, selectedTxnHotspot, selectedTxnWitnesses,
                    bounds, inflight, continuation, fired >>

\* the info box is shown or hidden
InfoBoxToggle ==
    /\ Idle
    /\ showInfoBox' = ~showInfoBox
    /\ turn' = Quiet
    /\ UNCHANGED << isDesktopOrLaptop, styleLoaded, currentPosition,
                    selectedHotspot, selectedTxn, selectedTxnHotspot,
                    selectedTxnWitnesses, bounds, inflight, continuation, fired >>

\* onStyleLoad: map.current = mapInstance; setStyledLoaded(true)
onStyleLoad ==
    /\ Idle
    /\ ~styleLoaded
    /\ styleLoaded' = TRUE
    /\ turn' = Quiet
    /\ UNCHANGED << isDesktopOrLaptop, showInfoBox, currentPosition,
                    selectedHotspot, selectedTxn, selectedTxnHotspot,
                    selectedTxnWitnesses, bounds, inflight, continuation, fired >>

----------------------------------------------------------------------------
(* Selection sources *)

\* the points the geolocation effect hands to findBounds; undefined when its
\* dependencies did not change or it returned early
GeolocationEffect(position, depsChanged) ==
    IF ~depsChanged \/ position.coords = undefined THEN undefined
    ELSE Some(GeolocationPoints(Val(position.coords)))

\* useGeolocation yields a fix: coords, a timestamp, and a coords object that
\* is the previous one (fresh = FALSE) or a new one
LocationUpdate(coords, timestamp, fresh) ==
    LET position == [coords |-> Some(coords), timestamp |-> timestamp]
        depsChanged == fresh \/ timestamp # currentPosition.timestamp
        points == GeolocationEffect(position, depsChanged)
    IN  /\ Idle
        /\ timestamp >= currentPosition.timestamp
        /\ Some(coords) # currentPosition.coords => fresh
        /\ currentPosition' = position
        /\ bounds' = BoundsAfter(points)
        /\ fired' = (fired \/ points # undefined)
        /\ turn' = Called("geolocation", points)
        /\ UNCHANGED << isDesktopOrLaptop, showInfoBox, styleLoaded,
                        selectedHotspot, selectedTxn, selectedTxnHotspot,
                        selectedTxnWitnesses, inflight, continuation >>

\* the points the primary selection effect hands to findBounds
SelectedHotspotEffect(hotspot) ==
    IF hotspot = undefined THEN undefined
    ELSE Some(SelectedHotspotPoints(Val(hotspot)))

\* useSelectedHotspot yields another selection, or none
SelectHotspot(hotspot) ==
    LET points == SelectedHotspotEffect(hotspot)
    IN  /\ Idle
        /\ hotspot # undefined \/ selectedHotspot # undefined
        /\ selectedHotspot' = hotspot
        /\ bounds' = BoundsAfter(points)
        /\ fired' = (fired \/ hotspot # undefined)
        /\ turn' = Called("primary", points)
        /\ UNCHANGED << isDesktopOrLaptop, showInfoBox, styleLoaded,
                        currentPosition, selectedTxn, selectedTxnHotspot,
                        selectedTxnWitnesses, inflight, continuation >>

\* the points the derived transaction effect hands to findBounds
SelectedTxnEffect(hotspot, witnesses) ==
    IF hotspot = undefined THEN undefined
    ELSE Some(SelectedTxnPoints(Val(hotspot), witnesses))

\* mutant: the callback does nothing for a transaction that is not a receipt
Resolution_KeepsDerived(txn) ==
    IF txn # undefined /\ Val(txn).type = "poc_receipts_v1"
    THEN /\ BagCardinality(inflight) < MaxInFlight
         /\ inflight' = inflight (+) SetToBag({Val(txn)})
         /\ UNCHANGED << selectedTxnHotspot, selectedTxnWitnesses, bounds >>
    ELSE UNCHANGED << inflight, selectedTxnHotspot, selectedTxnWitnesses, bounds >>

\* the useAsync callback up to its first suspension: a receipt suspends at the
\* record fetch, anything else clears the derived selection at once
Resolution(txn) ==
    IF txn # undefined /\ Val(txn).type = "poc_receipts_v1"
    THEN /\ BagCardinality(inflight) < MaxInFlight
         /\ inflight' = inflight (+) SetToBag({Val(txn)})
         /\ UNCHANGED << selectedTxnHotspot, selectedTxnWitnesses, bounds >>
    ELSE /\ UNCHANGED inflight
         /\ selectedTxnHotspot' = undefined
         /\ selectedTxnWitnesses' = << >>
         /\ bounds' = BoundsAfter(SelectedTxnEffect(undefined, << >>))

\* useSelectedTxn yields another transaction, or none
SelectTxn(txn) ==
    /\ Idle
    /\ txn # selectedTxn
    /\ selectedTxn' = txn
    /\ Resolution(txn)
    /\ turn' = Quiet
    /\ UNCHANGED << isDesktopOrLaptop, showInfoBox, styleLoaded, currentPosition,
                    selectedHotspot, continuation, fired >>

Without(tasks, txn) == tasks (-) SetToBag({txn})

\* fetchHotspot resolves for a suspended resolution, which goes on to
\* setSelectedTxnHotspot and setSelectedTxnWitnesses.  batched: the two writes
\* are rendered together; otherwise each is rendered on its own and the
\* effect runs between them
FetchResolved(txn, batched) ==
    LET targetHotspot == fetchHotspot(txn.path[1].challengee)
        witnesses == DecodedWitnesses(txn)
        points == SelectedTxnEffect(Some(targetHotspot),
                      IF batched THEN witnesses ELSE selectedTxnWitnesses)
    IN  /\ Idle
        /\ BagIn(txn, inflight)
        /\ inflight' = Without(inflight, txn)
        /\ selectedTxnHotspot' = Some(targetHotspot)
        /\ selectedTxnWitnesses' = IF batched THEN witnesses ELSE selectedTxnWitnesses
        /\ continuation' = IF batched THEN undefined
                           ELSE Some([txn |-> txn, witnesses |-> witnesses])
        /\ bounds' = BoundsAfter(points)
        /\ fired' = TRUE
        /\ turn' = Called("transaction", points)
        /\ UNCHANGED << isDesktopOrLaptop, showInfoBox, styleLoaded,
                        currentPosition, selectedHotspot, selectedTxn >>

\* the second write of a resolution whose writes are rendered one by one
WitnessesWritten ==
    LET task == Val(continuation)
        points == SelectedTxnEffect(selectedTxnHotspot, task.witnesses)
    IN  /\ continuation # undefined
        /\ continuation' = undefined
        /\ selectedTxnWitnesses' = task.witnesses
        /\ bounds' = BoundsAfter(points)
        /\ turn' = Called("transaction", points)
        /\ UNCHANGED << isDesktopOrLaptop, showInfoBox, styleLoaded,
                        currentPosition, selectedHotspot, selectedTxn,
                        selectedTxnHotspot, inflight, fired >>

\* mutant: a failed fetch clears the derived selection
FetchRejected_ClearsDerived(txn) ==
    /\ Idle
    /\ BagIn(txn, inflight)
    /\ inflight' = Without(inflight, txn)
    /\ selectedTxnHotspot' = undefined
    /\ selectedTxnWitnesses' = << >>
    /\ turn' = Quiet
    /\ UNCHANGED << isDesktopOrLaptop, showInfoBox, styleLoaded, currentPosition,
                    selectedHotspot, selectedTxn, bounds, continuation, fired >>

\* fetchHotspot rejects for a suspended resolution: the callback ends there
\* and useAsync keeps the error
FetchRejected(txn) ==
    /\ Idle
    /\ BagIn(txn, inflight)
    /\ inflight' = Without(inflight, txn)
    /\ turn' = Quiet
    /\ UNCHANGED << isDesktopOrLaptop, showInfoBox, styleLoaded, currentPosition,
                    selectedHotspot, selectedTxn, selectedTxnHotspot,
                    selectedTxnWitnesses, bounds, continuation, fired >>

----------------------------------------------------------------------------
(* Pointer interaction *)

\* mutant: the select branch taken for several hits, not for one
IsSingleHit_Several(features) == Len(features) > 1

\* `features.length === 1`
IsSingleHit(features) == Len(features) = 1

\* handleHotspotClick with what the hit-test returned
handleHotspotClick(features) ==
    /\ Idle
    /\ styleLoaded
    /\ IF IsSingleHit(features)
       THEN /\ turn' = Turn("click", features,
                              << features[1].properties.address >>, << >>, FALSE)
            /\ UNCHANGED << bounds, fired >>
       ELSE LET points == ClusterPoints(features)
            IN  /\ turn' = Turn("click", features, << >>, << points >>,
                                  InvalidArgument(points))
                /\ bounds' = IF InvalidArgument(points) THEN bounds
                             ELSE findBounds(points)
                /\ fired' = (fired \/ ~InvalidArgument(points))
    /\ UNCHANGED << isDesktopOrLaptop, showInfoBox, styleLoaded, currentPosition,
                    selectedHotspot, selectedTxn, selectedTxnHotspot,
                    selectedTxnWitnesses, inflight, continuation >>

----------------------------------------------------------------------------
(* What the render hands to HotspotDetailLayer *)

\* hotspot={selectedHotspot || selectedTxnHotspot}
DetailLayerHotspot ==
    IF selectedHotspot # undefined THEN selectedHotspot ELSE selectedTxnHotspot

\* witnesses={selectedHotspot?.witnesses || selectedTxnWitnesses || []}
\* (selectedTxnWitnesses is always an array, which is truthy even when empty)
DetailLayerWitnesses ==
    IF selectedHotspot # undefined /\ Val(selectedHotspot).witnesses # undefined
    THEN Val(Val(selectedHotspot).witnesses)
    ELSE selectedTxnWitnesses

----------------------------------------------------------------------------

Next ==
    \/ DeviceClassChange
    \/ InfoBoxToggle
    \/ onStyleLoad
    \/ \E coords \in FixCoords, timestamp \in 1..MaxTimestamp, fresh \in BOOLEAN :
          LocationUpdate(coords, timestamp, fresh)
    \/ \E hotspot \in {undefined} \cup {Some(h) : h \in PrimarySelections} :
          SelectHotspot(hotspot)
    \/ \E txn \in {undefined} \cup {Some(t) : t \in Txns} : SelectTxn(txn)
    \/ \E txn \in BagToSet(inflight), batched \in BOOLEAN :
          FetchResolved(txn, batched)
    \/ WitnessesWritten
    \/ \E txn \in BagToSet(inflight) : FetchRejected(txn)
    \/ \E features \in HitTests : handleHotspotClick(features)

Spec == Init /\ [][Next]_vars

\* line 114 follows line 113 in the same task: a resolution that has written
\* the target goes on to write the witnesses
FairSpec == Spec /\ WF_vars(WitnessesWritten)

----------------------------------------------------------------------------
(* Vocabulary of the properties *)

ReceiptTxns == { t \in Txns : t.type = "poc_receipts_v1" }

SetMax(S) == CHOOSE x \in S : \A y \in S : y <= x

SetMin(S) == CHOOSE x \in S : \A y \in S : x <= y

\* the enclosing box of a non-empty set of [lat, lng] points
EnclosingBox(P) ==
    << << SetMax({ p.lng : p \in P }), SetMax({ p.lat : p \in P }) >>,
       << SetMin({ p.lng : p \in P }), SetMin({ p.lat : p \in P }) >> >>

\* the [lat, lng] points of a sequence of records that carry lat and lng
\* (a present optional value is a sequence of one)
PointsIn(ws) == { [lat |-> ws[i].lat, lng |-> ws[i].lng] : i \in 1..Len(ws) }

----------------------------------------------------------------------------
(* C1  Stale-resolution discard.  When the record fetch completes for a
   transaction that is no longer the selected one, the completion writes
   neither the target nor the witnesses and bounds is not recomputed. *)
C1_StaleResolutionDiscarded ==
    [][\A txn \in ReceiptTxns, batched \in BOOLEAN :
          (selectedTxn # Some(txn) /\ FetchResolved(txn, batched))
              => UNCHANGED << selectedTxnHotspot, selectedTxnWitnesses, bounds >>]_vars

(* C2  Default region at startup.  bounds starts as the default box of the
   startup device class and keeps that value in every state reached before a
   selection source has fired, whatever the device class becomes. *)
C2_DefaultRegionAtStartup ==
    /\ bounds = IF isDesktopOrLaptop THEN << << 3210, 5863 >>, << -12500, 3300 >> >>
                ELSE << << -6108, 4484 >>, << -12500, 3300 >> >>
    /\ [][~fired' => bounds' = bounds]_vars

\* the device class changed after startup and bounds is still the wide default
C2_Witness ==
    /\ ~fired
    /\ ~isDesktopOrLaptop
    /\ styleLoaded
    /\ bounds = US_EU_BOUNDS

(* C3  Padding rule table, first match wins.  The fit padding is the desktop
   profile on a wide viewport (overlay visible or not), the bottom-biased
   mobile profile on a narrow viewport with the overlay visible, and the
   uniform padding 10 otherwise, whether or not the map is ready. *)
C3_PaddingRuleTable ==
    /\ isDesktopOrLaptop
          => fitBoundsOptions.padding =
                 [top |-> 200, left |-> 600, right |-> 200, bottom |-> 200]
    /\ ~isDesktopOrLaptop /\ showInfoBox
          => fitBoundsOptions.padding =
                 [top |-> 10, left |-> 10, right |-> 10, bottom |-> 450]
    /\ ~isDesktopOrLaptop /\ ~showInfoBox
          => fitBoundsOptions.padding = [uniform |-> 10]

\* wide viewport, overlay visible, map ready: the desktop profile wins
C3_Witness ==
    /\ isDesktopOrLaptop
    /\ showInfoBox
    /\ styleLoaded
    /\ fitBoundsOptions.padding = DESKTOP_PADDING
    /\ fitBoundsOptions.padding # MOBILE_PADDING

(* C4  No premature animation.  In every reachable state the animate flag of
   the fit options equals the surface-ready flag, whatever the viewport class
   and the overlay visibility. *)
C4_NoPrematureAnimation == fitBoundsOptions.animate = styleLoaded

\* a source has replaced bounds before the style has loaded: no animation
C4_Witness ==
    /\ ~styleLoaded
    /\ turn.calls # << >>
    /\ bounds = findBounds(turn.calls[1])
    /\ bounds \notin { US_BOUNDS, US_EU_BOUNDS }
    /\ fitBoundsOptions.animate = FALSE

(* C5  Click with exactly one hit feature.  The handler passes that feature's
   address to selectHotspot, calls findBounds not at all and leaves bounds as
   it was. *)
C5_SingleHitSelects ==
    [][(turn'.src = "click" /\ Len(turn'.hits) = 1)
          => /\ turn'.emit = << turn'.hits[1].properties.address >>
             /\ turn'.calls = << >>
             /\ bounds' = bounds]_vars

\* a click on hotspot h2 alone, after another source had set bounds
C5_Witness ==
    /\ turn.src = "click"
    /\ Len(turn.hits) = 1
    /\ turn.emit = << "h2" >>
    /\ fired
    /\ bounds \notin { US_BOUNDS, US_EU_BOUNDS }

(* C6  Click with more than one hit feature.  The handler passes nothing to
   selectHotspot and replaces bounds with the enclosing box of the coordinates
   of all hit features: northeast [max lng, max lat], southwest
   [min lng, min lat]. *)
C6_ClusterBounds ==
    [][(turn'.src = "click" /\ Len(turn'.hits) > 1)
          => /\ turn'.emit = << >>
             /\ bounds' = EnclosingBox(
                    { [lat |-> turn'.hits[i].geometry.coordinates[2],
                       lng |-> turn'.hits[i].geometry.coordinates[1]] :
                          i \in 1..Len(turn'.hits) })]_vars

\* hit features at (lat 3, lng 4) and (lat 1, lng 2) degrees
C6_Witness ==
    /\ turn.src = "click"
    /\ Len(turn.hits) = 2
    /\ turn.calls = << << [lat |-> 300, lng |-> 400], [lat |-> 100, lng |-> 200] >> >>
    /\ turn.emit = << >>
    /\ bounds = << << 400, 300 >>, << 200, 100 >> >>

(* C7  Click with zero hit features.  The handler passes nothing to
   selectHotspot, builds no cluster point-set for findBounds and leaves bounds
   as it was. *)
C7_ZeroHitsNoOutcome ==
    [][(turn'.src = "click" /\ Len(turn'.hits) = 0)
          => /\ turn'.emit = << >>
             /\ turn'.calls = << >>
             /\ bounds' = bounds]_vars

(* C8  Adapter discipline.  In no reachable state has the last turn called
   findBounds with an empty point-set. *)
C8_NeverEmptyPointSet ==
    \A i \in 1..Len(turn.calls) : Len(turn.calls[i]) > 0

(* C9  Bounds of the selection adapters.  When the primary selection effect
   or the derived transaction effect runs with a focal point present, bounds
   becomes the enclosing box of exactly the focal point and the witnesses of
   that source, whatever their order. *)
C9_SelectionBounds ==
    [][/\ turn'.src = "primary"
             => bounds' = EnclosingBox(
                    PointsIn(selectedHotspot')
                        \cup (IF Val(selectedHotspot').witnesses = undefined THEN { }
                              ELSE PointsIn(Val(Val(selectedHotspot').witnesses))))
       /\ turn'.src = "transaction"
             => bounds' = EnclosingBox(
                    PointsIn(selectedTxnHotspot') \cup PointsIn(selectedTxnWitnesses'))
      ]_vars

\* the primary selection h2 with its two witnesses has replaced bounds
C9_Witness ==
    /\ turn.src = "primary"
    /\ Val(selectedHotspot).witnesses # undefined
    /\ Len(turn.calls[1]) = 3
    /\ bounds = << << 600, 500 >>, << 400, 300 >> >>

(* C10  Single-point degeneracy for the device location.  After a location
   fix (latitude, longitude) bounds is the zero-area box whose two corners
   are both [longitude, latitude]. *)
C10_LocationFixBox ==
    [][turn'.src = "geolocation"
          => LET coords == Val(currentPosition'.coords)
             IN  bounds' = << << coords.longitude, coords.latitude >>,
                              << coords.longitude, coords.latitude >> >>]_vars

\* the fix (lat 10, lng 20) degrees has replaced bounds
C10_Witness ==
    /\ turn.src = "geolocation"
    /\ currentPosition.coords = Some([latitude |-> 1000, longitude |-> 2000])
    /\ bounds = << << 2000, 1000 >>, << 2000, 1000 >> >>
    /\ bounds[1] = bounds[2]

----------------------------------------------------------------------------
(* The point-set each selection source contributes *)

\* the single point of a location fix
FixPointSet(position) ==
    { [lat |-> Val(position.coords).latitude,
       lng |-> Val(position.coords).longitude] }

\* the focal point of a primary selection and its witnesses, if it lists any
PrimaryPointSet(hotspot) ==
    PointsIn(hotspot)
        \cup (IF Val(hotspot).witnesses = undefined THEN { }
              ELSE PointsIn(Val(Val(hotspot).witnesses)))

\* the target of the derived transaction selection and its witnesses
DerivedPointSet(hotspot, witnesses) == PointsIn(hotspot) \cup PointsIn(witnesses)

\* the coordinates of the hit features of a click
HitPointSet(hits) ==
    { [lat |-> hits[i].geometry.coordinates[2],
       lng |-> hits[i].geometry.coordinates[1]] : i \in 1..Len(hits) }

(* C11  Last writer wins, no priority.  A turn in which a selection source
   changed to a non-empty input (a location fix, a primary selection, a
   written derived transaction selection, a click on several features) leaves
   bounds at the enclosing box of that source's point-set, whatever the other
   sources hold and whichever of them fired before; every other turn leaves
   bounds as it was.  So bounds always is the box of the source that changed
   most recently. *)
C11_LastWriterWins ==
    [][/\ turn'.src = "geolocation"
             => bounds' = EnclosingBox(FixPointSet(currentPosition'))
       /\ turn'.src = "primary"
             => bounds' = EnclosingBox(PrimaryPointSet(selectedHotspot'))
       /\ turn'.src = "transaction"
             => bounds' = EnclosingBox(
                    DerivedPointSet(selectedTxnHotspot', selectedTxnWitnesses'))
       /\ (turn'.src = "click" /\ Len(turn'.hits) > 1)
             => bounds' = EnclosingBox(HitPointSet(turn'.hits))
       /\ (turn'.src = "none" \/ (turn'.src = "click" /\ Len(turn'.hits) <= 1))
             => bounds' = bounds
      ]_vars

\* a location fix has replaced bounds although a primary selection with
\* witnesses and a derived transaction selection are both present
C11_Witness ==
    /\ turn.src = "geolocation"
    /\ selectedHotspot # undefined
    /\ Val(selectedHotspot).witnesses # undefined
    /\ selectedTxnHotspot # undefined
    /\ selectedTxnWitnesses # << >>
    /\ bounds = EnclosingBox(FixPointSet(currentPosition))
    /\ bounds # EnclosingBox(PrimaryPointSet(selectedHotspot))
    /\ bounds # EnclosingBox(DerivedPointSet(selectedTxnHotspot, selectedTxnWitnesses))

(* C12  Context changes leave bounds unchanged.  A turn in which the device
   class, the overlay visibility or the surface-ready flag changes calls
   findBounds not at all and ends with bounds as it was; the fit options
   follow the new context. *)
C12_ContextKeepsBounds ==
    [][(\/ isDesktopOrLaptop' # isDesktopOrLaptop
        \/ showInfoBox' # showInfoBox
        \/ styleLoaded' # styleLoaded)
          => /\ bounds' = bounds
             /\ turn'.calls = << >>
             /\ fitBoundsOptions' =
                    fitBoundsOptionsOf(isDesktopOrLaptop', showInfoBox', styleLoaded')
      ]_vars

\* the surface became ready after the primary selection h2 had replaced the
\* default box: bounds is still the box of h2 and fits are animated now
C12_Witness ==
    /\ styleLoaded
    /\ turn = Quiet
    /\ selectedHotspot # undefined
    /\ bounds = EnclosingBox(PrimaryPointSet(selectedHotspot))
    /\ bounds = << << 600, 500 >>, << 400, 300 >> >>
    /\ fitBoundsOptions.animate

(* C13  An adapter with no point requests no recompute.  A turn that clears
   the primary selection, a turn that empties the derived transaction
   selection, and any turn that ends with the device location still without
   coordinates: the adapter of that source calls findBounds not at all, and
   bounds and the fit options end the turn as they began it. *)
C13_NoPointNoRecompute ==
    [][/\ (selectedHotspot # undefined /\ selectedHotspot' = undefined)
             => /\ turn'.calls = << >>
                /\ bounds' = bounds
                /\ fitBoundsOptions' = fitBoundsOptions
       /\ (selectedTxnHotspot # undefined /\ selectedTxnHotspot' = undefined)
             => /\ selectedTxnWitnesses' = << >>
                /\ turn'.calls = << >>
                /\ bounds' = bounds
                /\ fitBoundsOptions' = fitBoundsOptions
       /\ currentPosition'.coords = undefined => turn'.src # "geolocation"
      ]_vars

\* the primary selection h2 was cleared: bounds still is the box h2 and its
\* witnesses had given it
C13_Witness ==
    /\ selectedHotspot = undefined
    /\ turn = Quiet
    /\ bounds = << << 600, 500 >>, << 400, 300 >> >>
    /\ bounds = EnclosingBox(PrimaryPointSet(Some(
                    CHOOSE h \in PrimarySelections : h.address = "h2")))

\* the selected transaction is absent or not a receipt
NotReceipt(txn) == txn = undefined \/ Val(txn).type # "poc_receipts_v1"

(* C14  Non-receipt transactions empty the derived source.  When the selected
   transaction changes to an absent one or to one that is not a receipt while
   no resolution is in flight, the turn ends with the derived transaction
   selection empty (no target, no witnesses), findBounds not called and bounds
   as it was; and the derived selection stays empty for as long as the
   selected transaction stays the same. *)
C14_NonReceiptEmptiesDerived ==
    [][/\ (selectedTxn' # selectedTxn /\ NotReceipt(selectedTxn')
               /\ inflight = EmptyBag)
             => /\ selectedTxnHotspot' = undefined
                /\ selectedTxnWitnesses' = << >>
                /\ turn'.calls = << >>
                /\ bounds' = bounds
       /\ (selectedTxn' = selectedTxn /\ NotReceipt(selectedTxn)
               /\ inflight = EmptyBag /\ selectedTxnHotspot = undefined)
             => /\ selectedTxnHotspot' = undefined
                /\ selectedTxnWitnesses' = selectedTxnWitnesses
      ]_vars

\* the receipt tA was resolved and shown, then the payment tP was selected:
\* the derived selection is empty and bounds still is the box of tA's points
C14_Witness ==
    /\ selectedTxn # undefined
    /\ Val(selectedTxn).type = "payment_v2"
    /\ inflight = EmptyBag
    /\ selectedTxnHotspot = undefined
    /\ selectedTxnWitnesses = << >>
    /\ turn = Quiet
    /\ bounds = EnclosingBox(
           DerivedPointSet(Some(fetchHotspot("h1")),
                           << [lat |-> 150, lng |-> 250], [lat |-> 120, lng |-> 300] >>))

(* C15  Upstream retrieval failure leaves bounds unchanged.  When the record
   fetch of a resolution fails, that resolution writes neither the target nor
   the witnesses, findBounds is not called and bounds stays as it was; and
   while a resolution is only waiting for its fetch, the derived transaction
   adapter writes bounds for no other reason than the completion of a fetch,
   so a fetch that never completes changes nothing. *)
C15_FetchFailureKeepsBounds ==
    [][/\ \A txn \in ReceiptTxns :
             FetchRejected(txn)
                 => /\ UNCHANGED << selectedTxnHotspot, selectedTxnWitnesses, bounds >>
                    /\ turn'.calls = << >>
       /\ (turn'.src = "transaction" /\ continuation = undefined)
             => \E txn \in ReceiptTxns :
                    /\ BagIn(txn, inflight)
                    /\ inflight' = Without(inflight, txn)
      ]_vars

\* the fetch for the selected receipt tA failed: nothing is in flight, the
\* derived selection is still empty and bounds still is the box that the
\* primary selection h2 had given it
C15_Witness ==
    /\ selectedTxn # undefined
    /\ Val(selectedTxn).type = "poc_receipts_v1"
    /\ inflight = EmptyBag
    /\ continuation = undefined
    /\ selectedTxnHotspot = undefined
    /\ selectedTxnWitnesses = << >>
    /\ turn = Quiet
    /\ selectedHotspot # undefined
    /\ bounds = << << 600, 500 >>, << 400, 300 >> >>

(* C16  The device location recompute is gated by the timestamp.  A location
   update whose timestamp equals that of the previous fix calls findBounds not
   at all and leaves bounds as it was, so it never overwrites what another
   source has written since. *)
C16_TimestampGatesRecompute ==
    [][(/\ currentPosition.coords # undefined
        /\ currentPosition' # currentPosition \/ turn'.src = "geolocation"
        /\ currentPosition'.timestamp = currentPosition.timestamp)
          => /\ turn'.calls = << >>
             /\ bounds' = bounds]_vars

\* the target and the witnesses of one receipt transaction
TxnPointSet(txn) ==
    DerivedPointSet(Some(fetchHotspot(txn.path[1].challengee)), DecodedWitnesses(txn))

(* C17  Target/witness pairing.  Every time the derived transaction adapter
   calls findBounds, the points it passes belong to one and the same
   transaction: that transaction's target, and witnesses of that transaction
   only, never the target of one transaction with witnesses left by another. *)
C17_TargetWitnessPairing ==
    [][turn'.src = "transaction"
          => \E txn \in ReceiptTxns :
                 LET passed == { turn'.calls[1][i] : i \in 1..Len(turn'.calls[1]) }
                 IN  /\ PointsIn(Some(fetchHotspot(txn.path[1].challengee)))
                            \subseteq passed
                     /\ passed \subseteq TxnPointSet(txn)]_vars

\* the derived transaction selection holds the target and the witnesses of
\* txn, and bounds is their box
Applied(txn) ==
    /\ continuation = undefined
    /\ selectedTxnHotspot = Some(fetchHotspot(txn.path[1].challengee))
    /\ selectedTxnWitnesses = DecodedWitnesses(txn)
    /\ bounds = EnclosingBox(TxnPointSet(txn))

\* a resolution of txn whose fetch has succeeded ends with txn applied
ResolutionCompletes ==
    \A txn \in ReceiptTxns :
        (continuation # undefined /\ Val(continuation).txn = txn) ~> Applied(txn)

\* once the selected transaction is applied, the derived transaction adapter
\* does not fire again for as long as the selected transaction stays
QuiescentAfterApplied ==
    [][\A txn \in ReceiptTxns :
          (selectedTxn = Some(txn) /\ Applied(txn) /\ selectedTxn' = selectedTxn)
              => turn'.src # "transaction"]_vars

(* C18  Eventual application of the latest resolution.  When a receipt is
   selected and its fetch succeeds, the derived transaction selection comes to
   hold its target and its witnesses and bounds their box; and from then on,
   with the selected transaction unchanged, the derived transaction adapter
   writes bounds no more. *)
C18_LatestResolutionApplied ==
    /\ ResolutionCompletes
    /\ QuiescentAfterApplied

(* C19  Detail layer consistency.  In every reachable state the witnesses
   handed to the detail layer belong to the hotspot handed to it: with a
   primary selection they are witnesses that the primary selection lists (none
   when it lists none), never those of the derived transaction selection; with
   the target of a transaction they are witnesses of that transaction. *)
C19_DetailLayerConsistent ==
    /\ selectedHotspot # undefined
          => /\ DetailLayerHotspot = selectedHotspot
             /\ PointsIn(DetailLayerWitnesses)
                    \subseteq (PrimaryPointSet(selectedHotspot) \ PointsIn(selectedHotspot))
    /\ (selectedHotspot = undefined /\ selectedTxnHotspot # undefined)
          => \E txn \in ReceiptTxns :
                 /\ DetailLayerHotspot = Some(fetchHotspot(txn.path[1].challengee))
                 /\ PointsIn(DetailLayerWitnesses) \subseteq PointsIn(DecodedWitnesses(txn))

====
